---------------------------- MODULE Spec2Model ----------------------------
(***************************************************************************)
(* declui: rules -> component.  A model of src/src/index.tsx:              *)
(* checkIfRuleMatchesProps, transformRulesToComponent and the render       *)
(* function of the component it produces (functional and stateful).        *)
(*                                                                         *)
(* JavaScript values are records tagged by t; a JavaScript object is a     *)
(* function from its own keys (strings) to values; an array is a sequence. *)
(* The globals objects live in heap and are referred to by Ref(n), so that *)
(* "the same object" and "an equal object" are different things.           *)
(***************************************************************************)
EXTENDS Naturals, Sequences, FiniteSets

VARIABLES
    components,   \* what each call of transformRulesToComponent returned
    instances,    \* the mounted instances of those components
    heap,         \* the globals objects created so far, heap[n] is Ref(n)
    out,          \* out[i]: what the last render pass of instance i did and returned
    probe         \* the last direct application of checkIfRuleMatchesProps

vars == <<components, instances, heap, out, probe>>

---------------------------------------------------------------------------
(* Bounds *)

MaxData == 3
MaxRules == 2
MaxComponents == 2
MaxInstances == 2

---------------------------------------------------------------------------
(* JavaScript values *)

Undefined == [t |-> "undefined"]
Null == [t |-> "null"]
Str(s) == [t |-> "string", s |-> s]
Arr(xs) == [t |-> "array", items |-> xs]
EmptyObject == [t |-> "object"]
Ref(n) == [t |-> "ref", id |-> n]
ComponentRef(n) == [t |-> "component", name |-> n]

\* obj[key]: undefined for a key the object does not have
Get(obj, key) == IF key \in DOMAIN obj THEN obj[key] ELSE Undefined

\* {...a, ...b}
Spread(a, b) ==
    [k \in (DOMAIN a) \cup (DOMAIN b) |-> IF k \in DOMAIN b THEN b[k] ELSE a[k]]

\* const { [key]: _, ...rest } = obj
Rest(obj, key) == [k \in (DOMAIN obj) \ {key} |-> obj[k]]

EmptyObj == [k \in {} |-> Undefined]

---------------------------------------------------------------------------
(* checkIfRuleMatchesProps *)

\* a name that is there, or else keys that are all declared
checkIfRuleMatchesPropsOr(rule, props) ==
    LET ruleProps == rule.props
    IN  \/ Get(props, rule.name) # Undefined
        \/ \A propName \in DOMAIN props :
              \E name \in DOMAIN ruleProps : propName = name

checkIfRuleMatchesProps(rule, props) ==
    LET ruleProps == Spread([k \in {rule.name} |-> Undefined], rule.props)
    IN  /\ Get(props, rule.name) # Undefined
        /\ \A propName \in DOMAIN props :
              \E name \in DOMAIN ruleProps : propName = name

---------------------------------------------------------------------------
(* Rules.  A rule is [name, props]: $name and $props, an absent $props     *)
(* being the empty object the code replaces it by (rule.$props || {}).     *)
(* A property specification is [type, input, default]; an absent input is  *)
(* FALSE and an absent default is Undefined, which is how the code reads   *)
(* them (v?.input, v.default !== undefined).                               *)

Names == {"a", "b"}
PropKeys == {"p"}
Defaults == {Undefined, Str("d1"), Str("d2")}
PropSpecs == [type : {"String"}, input : BOOLEAN, default : Defaults]
PlainSpec == [type |-> "String", input |-> FALSE, default |-> Undefined]

Objects(K, V) == UNION {[D -> V] : D \in SUBSET K}
SeqsUpTo(S, n) == UNION {[1..k -> S] : k \in 0..n}

RuleSet == [name : Names, props : Objects(PropKeys, PropSpecs)]
RuleLists == SeqsUpTo(RuleSet, MaxRules)

\* rules that declare any of the keys an item can carry, for the matching alone
MatchRules == RuleSet \cup [name : Names, props : Objects({"a", "b", "p"}, {PlainSpec})]

ItemValues == {Undefined, Null, Str("i")}
Items == Objects({"a", "b", "p"}, ItemValues)

\* the rules and items of the render passes over whole lists
ListRuleSet ==
    {r \in RuleSet :
        /\ r.name = "a"
        /\ \A k \in DOMAIN r.props : r.props[k] = [type |-> "String", input |-> FALSE, default |-> Str("d1")]}
ListRuleLists == SeqsUpTo(ListRuleSet, MaxRules)
ListItems == Objects({"a", "p"}, {Str("i")})
DataLists == SeqsUpTo(ListItems, MaxData)

ContainingElements ==
    {Undefined, Str("none"), Str("ul"), Str("empty"), ComponentRef("Container")}
SettingsSet == [functionalOutput : BOOLEAN, containingElement : ContainingElements]

GlobalKeys == {"open"}
GlobalValues == {Str("g"), Str("h")}

---------------------------------------------------------------------------
(* The host framework (Vue): how the props option of a component and the   *)
(* props a caller passes become the instance's props and attrs.            *)

\* every declared prop is a key of the props object: the passed value, or
\* else the declared default, or else undefined
ResolveProps(declared, passed) ==
    [k \in DOMAIN declared |->
        IF Get(passed, k) # Undefined THEN passed[k] ELSE declared[k].default]

\* what the caller passes and the component does not declare falls through
FallthroughAttrs(declared, passed) ==
    [k \in (DOMAIN passed) \ (DOMAIN declared) |-> passed[k]]

---------------------------------------------------------------------------
(* transformRulesToComponent: the props of the produced component *)

DataProp == [type |-> "Array", optional |-> TRUE, default |-> EmptyObject]

\* the entries of one rule's $props that are flagged input
InputEntries(rule) ==
    [k \in {k \in DOMAIN rule.props : rule.props[k].input} |-> rule.props[k]]

\* Object.fromEntries over the rules in order: a later entry replaces an earlier one
RECURSIVE inputProps(_)
inputProps(rules) ==
    IF rules = <<>> THEN EmptyObj
    ELSE Spread(inputProps(SubSeq(rules, 1, Len(rules) - 1)),
                InputEntries(rules[Len(rules)]))

ComponentProps(rules) == Spread([k \in {"data"} |-> DataProp], inputProps(rules))

---------------------------------------------------------------------------
(* The render function: one closure per item of data *)

\* rules.find((r) => checkIfRuleMatchesProps(r, ps)), 0 for undefined
\* the last matching rule instead of the first
findLast(rules, ps, j) ==
    LET hits == {n \in j..Len(rules) : checkIfRuleMatchesProps(rules[n], ps)}
    IN  IF hits = {} THEN 0 ELSE CHOOSE n \in hits : \A o \in hits : o <= n

RECURSIVE find(_, _, _)
find(rules, ps, j) ==
    IF j > Len(rules) THEN 0
    ELSE IF checkIfRuleMatchesProps(rules[j], ps) THEN j
    ELSE find(rules, ps, j + 1)

matchedRule(rules, ps) == find(rules, ps, 1)

\* the defined defaults of matchedRule?.$props
defaultProps(rules, m) ==
    IF m = 0 THEN EmptyObj
    ELSE LET P == rules[m].props
         IN  [k \in {k \in DOMAIN P : P[k].default # Undefined} |-> P[k].default]

\* the defaults spread after the component's props
ResolvedPropsDefaultsLast(dp, propsSansData, ps) == Spread(Spread(propsSansData, dp), ps)

\* the three spreads handed to $becomes
ResolvedProps(dp, propsSansData, ps) == Spread(Spread(dp, propsSansData), ps)

\* rule.$becomes(props, ctx, id): the node it returns records the call
Becomes(m, props, ctx, id) ==
    [t |-> "vnode", rule |-> m, props |-> props, ctx |-> ctx, id |-> id]

\* h(type, props, { default: () => children })
H(type, props, children) ==
    [t |-> "vnode", type |-> type, props |-> props, children |-> children]

\* an unmatched item skipped without a word
ItemFunSilent(rules, propsSansData, ctx, ps, i) ==
    LET m == matchedRule(rules, ps)
        dp == defaultProps(rules, m)
    IN  IF m # 0
        THEN [node |-> Becomes(m, ResolvedProps(dp, propsSansData, ps), ctx, i),
              warned |-> <<>>]
        ELSE [node |-> Undefined, warned |-> <<>>]

\* one closure of funs, called: the node it returns and what it warned about
ItemFun(rules, propsSansData, ctx, ps, i) ==
    LET m == matchedRule(rules, ps)
        dp == defaultProps(rules, m)
    IN  IF m # 0
        THEN [node |-> Becomes(m, ResolvedProps(dp, propsSansData, ps), ctx, i),
              warned |-> <<>>]
        ELSE [node |-> Undefined, warned |-> <<ps>>]

RECURSIVE Concat(_)
Concat(ss) == IF ss = <<>> THEN <<>> ELSE Head(ss) \o Concat(Tail(ss))

IsNode(n) == n.t = "vnode"

\* the closures called in order, the empty results filtered out
CallAllCompact(rules, propsSansData, ctx, items) ==
    LET r == [i \in 1..Len(items) |-> ItemFun(rules, propsSansData, ctx, items[i], i - 1)]
    IN  [nodes |-> SelectSeq([i \in 1..Len(items) |-> r[i].node], IsNode),
         warned |-> Concat([i \in 1..Len(items) |-> r[i].warned])]

\* the results collected back to front
CallAllReversed(rules, propsSansData, ctx, items) ==
    LET r == [i \in 1..Len(items) |-> ItemFun(rules, propsSansData, ctx, items[i], i - 1)]
    IN  [nodes |-> [i \in 1..Len(items) |-> r[Len(items) + 1 - i].node],
         warned |-> Concat([i \in 1..Len(items) |-> r[i].warned])]

\* the closures numbered by the matched items before them only
CallAllDenseIds(rules, propsSansData, ctx, items) ==
    LET dense(i) == Cardinality({j \in 1..(i - 1) : matchedRule(rules, items[j]) # 0})
        r == [i \in 1..Len(items) |->
                 ItemFun(rules, propsSansData, ctx, items[i], dense(i))]
    IN  [nodes |-> [i \in 1..Len(items) |-> r[i].node],
         warned |-> Concat([i \in 1..Len(items) |-> r[i].warned])]

\* funs.map((f) => f()): the closures are called in the order of data
CallAll(rules, propsSansData, ctx, items) ==
    LET r == [i \in 1..Len(items) |-> ItemFun(rules, propsSansData, ctx, items[i], i - 1)]
    IN  [nodes |-> [i \in 1..Len(items) |-> r[i].node],
         warned |-> Concat([i \in 1..Len(items) |-> r[i].warned])]

\* props.data.map(...) of a value that is no array raises a TypeError
Threw == [threw |-> TRUE, warned |-> <<>>, result |-> Undefined]

\* the render function with the context handed on as it came, globals not added
FunctionalRenderNoGlobals(comp, props, context) ==
    LET propsSansData == Rest(props, "data")
        data == Get(props, "data")
    IN  IF data.t # "array" THEN Threw
        ELSE LET called == CallAll(comp.rules, propsSansData, context, data.items)
             IN  [threw |-> FALSE,
                  warned |-> called.warned,
                  result |->
                    IF comp.containingElement = Str("none") THEN Arr(called.nodes)
                    ELSE IF comp.containingElement.t = "string"
                         THEN H(comp.containingElement, Null, called.nodes)
                    ELSE H(comp.containingElement,
                           Spread(propsSansData, context.attrs), called.nodes)]

\* the render function with the whole of props forwarded to the wrapping component
FunctionalRenderForwardsData(comp, props, context) ==
    LET propsSansData == Rest(props, "data")
        data == Get(props, "data")
        ctx == Spread(context, [globals |-> comp.globals])
    IN  IF data.t # "array" THEN Threw
        ELSE LET called == CallAll(comp.rules, propsSansData, ctx, data.items)
             IN  [threw |-> FALSE,
                  warned |-> called.warned,
                  result |->
                    IF comp.containingElement = Str("none") THEN Arr(called.nodes)
                    ELSE IF comp.containingElement.t = "string"
                         THEN H(comp.containingElement, Null, called.nodes)
                    ELSE H(comp.containingElement,
                           Spread(props, context.attrs), called.nodes)]

\* the render function of the functional component; this is the bound { globals }
FunctionalRender(comp, props, context) ==
    LET propsSansData == Rest(props, "data")
        data == Get(props, "data")
        ctx == Spread(context, [globals |-> comp.globals])
    IN  IF data.t # "array" THEN Threw
        ELSE LET called == CallAll(comp.rules, propsSansData, ctx, data.items)
             IN  [threw |-> FALSE,
                  warned |-> called.warned,
                  result |->
                    IF comp.containingElement = Str("none") THEN Arr(called.nodes)
                    ELSE IF comp.containingElement.t = "string"
                         THEN H(comp.containingElement, Null, called.nodes)
                    ELSE H(comp.containingElement,
                           Spread(propsSansData, context.attrs), called.nodes)]

\* the render method with the wrapping tag given the props and attrs as well
StatefulRenderTagAttrs(comp, this) ==
    LET propsSansData == Rest(this["$props"], "data")
        data == Get(this["$props"], "data")
    IN  IF data.t # "array" THEN Threw
        ELSE LET called == CallAll(comp.rules, propsSansData, this, data.items)
             IN  [threw |-> FALSE,
                  warned |-> called.warned,
                  result |->
                    IF comp.containingElement = Str("none") THEN Arr(called.nodes)
                    ELSE H(comp.containingElement,
                           Spread(propsSansData, this["$attrs"]), called.nodes)]

\* the render method with this.$props merged whole, data and all
StatefulRenderKeepsData(comp, this) ==
    LET propsSansData == Rest(this["$props"], "data")
        data == Get(this["$props"], "data")
    IN  IF data.t # "array" THEN Threw
        ELSE LET called == CallAll(comp.rules, this["$props"], this, data.items)
             IN  [threw |-> FALSE,
                  warned |-> called.warned,
                  result |->
                    IF comp.containingElement = Str("none") THEN Arr(called.nodes)
                    ELSE IF comp.containingElement.t = "string"
                         THEN H(comp.containingElement, Null, called.nodes)
                    ELSE H(comp.containingElement,
                           Spread(propsSansData, this["$attrs"]), called.nodes)]

\* the render method of the stateful component; this is the instance
StatefulRender(comp, this) ==
    LET propsSansData == Rest(this["$props"], "data")
        data == Get(this["$props"], "data")
    IN  IF data.t # "array" THEN Threw
        ELSE LET called == CallAll(comp.rules, propsSansData, this, data.items)
             IN  [threw |-> FALSE,
                  warned |-> called.warned,
                  result |->
                    IF comp.containingElement = Str("none") THEN Arr(called.nodes)
                    ELSE IF comp.containingElement.t = "string"
                         THEN H(comp.containingElement, Null, called.nodes)
                    ELSE H(comp.containingElement,
                           Spread(propsSansData, this["$attrs"]), called.nodes)]

\* the public instance of a stateful component, as far as the rules see it
This(inst) == [k \in {"$props", "$attrs"} |-> IF k = "$props" THEN inst.props ELSE inst.attrs]

\* one render pass of an instance
RenderPass(comp, inst) ==
    IF comp.functional
    THEN FunctionalRender(comp, inst.props, [attrs |-> inst.attrs])
    ELSE StatefulRender(comp, This(inst))

---------------------------------------------------------------------------
(* Actions *)

\* the object of the first call handed out again
FirstObject(h) == Ref(1)

\* .bind({ globals: {} }) and provide() { return { globals: {} } }: a new object
NewObject(h) == Ref(Len(h) + 1)

\* transformRulesToComponent(rules, settings)
Transform(rules, settings) ==
    LET containingElement ==
            IF settings.containingElement \in {Undefined, Null}
            THEN Str("div") ELSE settings.containingElement
        props == ComponentProps(rules)
    IN  /\ IF settings.functionalOutput
           THEN /\ heap' = Append(heap, EmptyObj)
                /\ components' = Append(components,
                      [functional |-> TRUE, rules |-> rules, settings |-> settings,
                       containingElement |-> containingElement, props |-> props,
                       globals |-> NewObject(heap)])
           ELSE /\ heap' = heap
                /\ components' = Append(components,
                      [functional |-> FALSE, rules |-> rules, settings |-> settings,
                       containingElement |-> containingElement, props |-> props,
                       globals |-> Undefined])
        /\ UNCHANGED <<instances, out, probe>>

\* one object made with the component and handed to every instance
ProvideShared(h) == Ref(1)

\* provide() of the stateful component, called by the host once per instance
Provide(h) == NewObject(h)

\* the globals a rule rendered by an instance gets hold of: ctx.globals of a
\* functional component, inject('globals') below a stateful one
InstanceGlobals(comp, inst) ==
    IF comp.functional THEN comp.globals ELSE inst.provided

\* one render pass of an instance, and what its rules find in globals meanwhile
Rendered(comp, inst, h) ==
    LET pass == RenderPass(comp, inst)
    IN  [threw |-> pass.threw, warned |-> pass.warned, result |-> pass.result,
         globals |-> h[InstanceGlobals(comp, inst).id]]

\* the host mounts component c with the props the caller passes: it resolves the
\* props, calls provide() of a stateful component, and renders
Mount(c, passed) ==
    LET comp == components[c]
        inst == [component |-> c,
                 passed |-> passed,
                 props |-> ResolveProps(comp.props, passed),
                 attrs |-> FallthroughAttrs(comp.props, passed),
                 provided |-> IF comp.functional THEN Undefined ELSE Provide(heap)]
    IN  /\ instances' = Append(instances, inst)
        /\ heap' = IF comp.functional THEN heap ELSE Append(heap, EmptyObj)
        /\ out' = Append(out, Rendered(comp, inst, heap'))
        /\ UNCHANGED <<components, probe>>

\* a render pass that starts from an empty globals object
UpdateClearsGlobals(i, passed) ==
    LET comp == components[instances[i].component]
        inst == [instances[i] EXCEPT
                    !.passed = passed,
                    !.props = ResolveProps(comp.props, passed),
                    !.attrs = FallthroughAttrs(comp.props, passed)]
    IN  /\ instances' = [instances EXCEPT ![i] = inst]
        /\ heap' = [heap EXCEPT ![InstanceGlobals(comp, inst).id] = EmptyObj]
        /\ out' = [out EXCEPT ![i] = Rendered(comp, inst, heap')]
        /\ UNCHANGED <<components, probe>>

\* the caller passes new props to instance i: the host renders it again; neither
\* .bind({ globals: {} }) nor provide() runs again
Update(i, passed) ==
    LET comp == components[instances[i].component]
        inst == [instances[i] EXCEPT
                    !.passed = passed,
                    !.props = ResolveProps(comp.props, passed),
                    !.attrs = FallthroughAttrs(comp.props, passed)]
    IN  /\ instances' = [instances EXCEPT ![i] = inst]
        /\ out' = [out EXCEPT ![i] = Rendered(comp, inst, heap)]
        /\ UNCHANGED <<components, heap, probe>>

\* the globals a rule rendered by instance i gets hold of
GlobalsOf(i) == InstanceGlobals(components[instances[i].component], instances[i])

\* a rule rendered by instance i stores v under key k of its globals
SetGlobal(i, k, v) ==
    /\ heap' = [heap EXCEPT ![GlobalsOf(i).id] = Spread(@, [kk \in {k} |-> v])]
    /\ UNCHANGED <<components, instances, out, probe>>

\* checkIfRuleMatchesProps applied to one rule and one item
Probe(rule, item) ==
    /\ probe' = <<[rule |-> rule, item |-> item,
                   matches |-> checkIfRuleMatchesProps(rule, item)]>>
    /\ UNCHANGED <<components, instances, heap, out>>

---------------------------------------------------------------------------
(* What a caller passes *)

\* a data list, or no data at all
ListPassed == {[data |-> Arr(d)] : d \in DataLists} \cup {EmptyObj}

\* the data of instance i after the caller edits it: one item more, the last
\* item less, or two neighbours exchanged
Edits(d) ==
    {Append(d, item) : item \in {x \in ListItems : Len(d) < MaxData}}
    \cup {SubSeq(d, 1, Len(d) - 1) : x \in {y \in {1} : d # <<>>}}
    \cup {[d EXCEPT ![k] = d[k + 1], ![k + 1] = d[k]] : k \in 1..(Len(d) - 1)}

ListEdited(i) ==
    LET cur == Get(instances[i].passed, "data")
    IN  {[data |-> Arr(d)] : d \in Edits(IF cur = Undefined THEN <<>> ELSE cur.items)}
        \cup {EmptyObj}

\* one item, with or without a value bound to p
SingleItems ==
    {Spread(n, q) : n \in Objects(Names, {Str("i")}), q \in Objects(PropKeys, ItemValues)}
ItemPassed ==
    {[data |-> Arr(<<item>>)] : item \in SingleItems}
    \cup {[data |-> Arr(<<item>>), p |-> Str("b")] : item \in SingleItems}

ItemSettings == [functionalOutput : BOOLEAN, containingElement : {Str("none")}]

\* the component and the data of the runs about globals
GlobalsRules == <<[name |-> "a", props |-> EmptyObj]>>
GlobalsSettings == [functionalOutput : BOOLEAN, containingElement : {Str("none")}]
GlobalsPassed == [data |-> Arr(<<[a |-> Str("i")]>>)]

\* the rules, the items and the props of the runs about the wrapper: a rule
\* without props and a rule with an input prop; data with or without a value
\* bound to p and with or without an attribute
ShapeRuleSet ==
    {[name |-> "a", props |-> EmptyObj],
     [name |-> "a",
      props |-> [p |-> [type |-> "String", input |-> TRUE, default |-> Str("d2")]]]}
ShapeRuleLists == SeqsUpTo(ShapeRuleSet, MaxRules)
ShapeItems == {[a |-> Str("i")], [p |-> Str("i")], [a |-> Str("i"), p |-> Str("i")]}
ShapePassed ==
    {Spread(Spread([data |-> Arr(d)], b), attr) :
        d \in SeqsUpTo(ShapeItems, MaxData),
        b \in Objects({"p"}, {Str("b")}),
        attr \in Objects({"class"}, {Str("c")})}
    \cup {EmptyObj}

\* the rules of the runs about the declared props: a rule may declare p and
\* data, each input or not
SurfaceSpecs == [type : {"String"}, input : BOOLEAN, default : {Undefined, Str("d1")}]
SurfaceRuleSet == [name : {"a"}, props : Objects({"p", "data"}, SurfaceSpecs)]
SurfaceRuleLists == SeqsUpTo(SurfaceRuleSet, MaxRules)
SurfacePassed == [data |-> Arr(<<[a |-> Str("i")]>>)]

---------------------------------------------------------------------------
Init ==
    /\ components = <<>>
    /\ instances = <<>>
    /\ heap = <<>>
    /\ out = <<>>
    /\ probe = <<>>

\* render passes over whole data lists: one component, one instance
Next ==
    \/ \E rules \in ListRuleLists, settings \in SettingsSet :
          components = <<>> /\ Transform(rules, settings)
    \/ \E passed \in ListPassed :
          components # <<>> /\ instances = <<>> /\ Mount(1, passed)
    \/ instances # <<>> /\ \E passed \in ListEdited(1) : Update(1, passed)

Spec == Init /\ [][Next]_vars

\* every rule list, one item: one component, one instance
NextItem ==
    \/ \E rules \in RuleLists, settings \in ItemSettings :
          components = <<>> /\ Transform(rules, settings)
    \/ \E passed \in ItemPassed :
          components # <<>> /\ instances = <<>> /\ Mount(1, passed)

SpecItem == Init /\ [][NextItem]_vars

\* the matching function alone
NextMatch == \E rule \in MatchRules, item \in Items : Probe(rule, item)

SpecMatch == Init /\ [][NextMatch]_vars

\* several components, several instances, and the rules' writes to globals
NextGlobals ==
    \/ \E settings \in GlobalsSettings :
          Len(components) < MaxComponents /\ Transform(GlobalsRules, settings)
    \/ \E c \in 1..Len(components) :
          Len(instances) < MaxInstances /\ Mount(c, GlobalsPassed)
    \/ \E i \in 1..Len(instances) : Update(i, GlobalsPassed)
    \/ \E i \in 1..Len(instances), k \in GlobalKeys, v \in GlobalValues :
          SetGlobal(i, k, v)

SpecGlobals == Init /\ [][NextGlobals]_vars

\* one rule list and one containingElement made into a functional and into a
\* stateful component, and both mounted with the same props
NextPair ==
    \/ \E rules \in ShapeRuleLists, element \in ContainingElements :
          /\ components = <<>>
          /\ Transform(rules, [functionalOutput |-> TRUE, containingElement |-> element])
    \/ /\ Len(components) = 1
       /\ Transform(components[1].rules,
                    [components[1].settings EXCEPT !.functionalOutput = FALSE])
    \/ \E passed \in ShapePassed :
          Len(components) = 2 /\ instances = <<>> /\ Mount(1, passed)
    \/ Len(instances) = 1 /\ Mount(2, instances[1].passed)

SpecPair == Init /\ [][NextPair]_vars

\* every rule list over p and data made into a component, and mounted
NextSurface ==
    \/ \E rules \in SurfaceRuleLists, settings \in ItemSettings :
          components = <<>> /\ Transform(rules, settings)
    \/ components # <<>> /\ instances = <<>> /\ Mount(1, SurfacePassed)

SpecSurface == Init /\ [][NextSurface]_vars

---------------------------------------------------------------------------
(* What the claims speak of *)

\* the item has a defined value under the rule's name, and no key the rule
\* does not declare
Fits(rule, item) ==
    /\ rule.name \in DOMAIN item
    /\ item[rule.name] # Undefined
    /\ (DOMAIN item) \subseteq ({rule.name} \cup DOMAIN rule.props)

Instances == 1..Len(instances)
RulesOf(i) == components[instances[i].component].rules
ElementOf(i) == components[instances[i].component].containingElement
HasData(i) == instances[i].props["data"].t = "array"
DataOf(i) == instances[i].props["data"].items
FittingRules(i, k) == {j \in 1..Len(RulesOf(i)) : Fits(RulesOf(i)[j], DataOf(i)[k])}
Matched(i) == {k \in 1..Len(DataOf(i)) : FittingRules(i, k) # {}}
Unmatched(i) == {k \in 1..Len(DataOf(i)) : FittingRules(i, k) = {}}

\* the per-item entries of a render result, wrapped or not
Entries(result) == IF result.t = "array" THEN result.items ELSE result.children

\* the members of a set of numbers, in increasing order
Ascending(S) ==
    CHOOSE f \in [1..Cardinality(S) -> S] :
        \A x, y \in 1..Cardinality(S) : x < y => f[x] < f[y]

---------------------------------------------------------------------------
\* C1: checkIfRuleMatchesProps(r, item) is true if and only if item[r.$name]
\* is not undefined and every key of the item is r.$name or a key of r.$props.
C1_MatchIffNamedAndDeclared ==
    \A n \in 1..Len(probe) :
        probe[n].matches <=> Fits(probe[n].rule, probe[n].item)

\* a rule without $props, and an item with the rule's name and one more key
C1_Witness ==
    /\ probe # <<>>
    /\ DOMAIN probe[1].rule.props = {}
    /\ DOMAIN probe[1].item = {probe[1].rule.name, "p"}
    /\ probe[1].item[probe[1].rule.name] # Undefined
    /\ ~probe[1].matches

\* C2: the rule whose $becomes is invoked for an item is the matching rule
\* of the smallest index, whenever a rule matches the item.
C2_FirstMatchWins ==
    \A i \in Instances :
        (HasData(i) /\ ~out[i].threw) =>
            \A k \in Matched(i) :
                LET n == Entries(out[i].result)[k]
                IN  /\ IsNode(n)
                    /\ n.rule \in FittingRules(i, k)
                    /\ \A j \in FittingRules(i, k) : n.rule <= j

\* two rules fit the item and the first of them rendered it
C2_Witness ==
    \E i \in Instances :
        /\ HasData(i) /\ ~out[i].threw
        /\ \E k \in Matched(i) :
              /\ FittingRules(i, k) = {1, 2}
              /\ Entries(out[i].result)[k].rule = 1

\* C3: an item that matches no rule is warned about, has no $becomes invoked,
\* raises nothing, and leaves every later item matched and rendered.
C3_UnmatchedIsWarnedAndSkipped ==
    \A i \in Instances :
        HasData(i) =>
            LET ns == Entries(out[i].result)
                um == Ascending(Unmatched(i))
            IN  /\ ~out[i].threw
                /\ Len(out[i].warned) = Len(um)
                /\ \A r \in 1..Len(um) : out[i].warned[r] = DataOf(i)[um[r]]
                /\ \A k \in Unmatched(i) :
                      /\ ~IsNode(ns[k])
                      /\ \A l \in Matched(i) :
                            l > k => IsNode(ns[l]) /\ ns[l].rule \in FittingRules(i, l)

\* an unmatched item before a matched one, rendered
C3_Witness ==
    \E i \in Instances :
        /\ HasData(i)
        /\ \E k \in Unmatched(i), l \in Matched(i) :
              /\ k < l
              /\ out[i].warned # <<>>
              /\ IsNode(Entries(out[i].result)[l])

\* C4, as claimed: with containingElement "none" the returned list has as many
\* entries as items of data matched a rule.
C4_LengthIsMatchedCount ==
    \A i \in Instances :
        (HasData(i) /\ ElementOf(i) = Str("none")) =>
            /\ out[i].result.t = "array"
            /\ Len(out[i].result.items) = Cardinality(Matched(i))

\* C4, amended: with containingElement "none" the returned list is flat and has
\* one entry per item of data, in place: the node of a matched item, and
\* undefined for an unmatched item.
C4_OneEntryPerItem ==
    \A i \in Instances :
        (HasData(i) /\ ElementOf(i) = Str("none")) =>
            /\ out[i].result.t = "array"
            /\ Len(out[i].result.items) = Len(DataOf(i))
            /\ \A k \in Matched(i) : IsNode(out[i].result.items[k])
            /\ \A k \in Unmatched(i) : out[i].result.items[k] = Undefined

\* a list with a matched and an unmatched item, rendered without a wrapper
C4_Witness ==
    \E i \in Instances :
        /\ HasData(i) /\ ElementOf(i) = Str("none")
        /\ Matched(i) # {} /\ Unmatched(i) # {}
        /\ out[i].result.t = "array"

\* C5: in every output mode the nodes of the matched items stand in the
\* output in the order of their items in data, each once.
C5_OrderOfDataKept ==
    \A i \in Instances :
        HasData(i) =>
            LET rendered == SelectSeq(Entries(out[i].result), IsNode)
                ms == Ascending(Matched(i))
            IN  /\ Len(rendered) = Len(ms)
                /\ \A r \in 1..Len(ms) :
                      /\ rendered[r].id = ms[r] - 1
                      /\ \A key \in DOMAIN DataOf(i)[ms[r]] :
                            rendered[r].props[key] = DataOf(i)[ms[r]][key]

\* data = [A, unmatched, B] rendered into a wrapper, A before B
C5_Witness ==
    \E i \in Instances :
        /\ HasData(i) /\ ElementOf(i) # Str("none")
        /\ Len(DataOf(i)) = 3
        /\ Matched(i) = {1, 3}
        /\ DataOf(i)[1] # DataOf(i)[3]
        /\ LET rendered == SelectSeq(Entries(out[i].result), IsNode)
           IN  Len(rendered) = 2 /\ rendered[1].id = 0 /\ rendered[2].id = 2

\* C6: for a matched item and every key, the value handed to $becomes is the
\* item's own field if the item has the key, otherwise the component's prop
\* of that key if the component's props (data left out) have it, otherwise
\* the matched rule's default; data is never merged.
C6_OverrideOrder ==
    \A i \in Instances :
        (HasData(i) /\ ~out[i].threw) =>
            \A k \in Matched(i) :
                LET n == Entries(out[i].result)[k]
                    item == DataOf(i)[k]
                    bound == [key \in (DOMAIN instances[i].props) \ {"data"} |->
                                 instances[i].props[key]]
                    declared == RulesOf(i)[n.rule].props
                    defaulted == {key \in DOMAIN declared : declared[key].default # Undefined}
                IN  /\ DOMAIN n.props = (DOMAIN item) \cup (DOMAIN bound) \cup defaulted
                    /\ "data" \notin (DOMAIN n.props) \ (DOMAIN item \cup defaulted)
                    /\ \A key \in DOMAIN n.props :
                          n.props[key] =
                              IF key \in DOMAIN item THEN item[key]
                              ELSE IF key \in DOMAIN bound THEN bound[key]
                              ELSE declared[key].default

\* the rule defaults p, the caller binds p, the item has no p: the bound value
C6_Witness ==
    \E i \in Instances :
        /\ HasData(i) /\ ~out[i].threw
        /\ \E k \in Matched(i) :
              LET n == Entries(out[i].result)[k]
                  declared == RulesOf(i)[n.rule].props
              IN  /\ "p" \notin DOMAIN DataOf(i)[k]
                  /\ "p" \in DOMAIN declared
                  /\ declared["p"].default = Str("d1")
                  /\ Get(instances[i].passed, "p") = Str("b")
                  /\ n.props["p"] = Str("b")

\* C7: when the matched rule declares a default for a property, the item has
\* no field of that name and the caller binds no value of that name, the
\* props handed to $becomes carry the matched rule's own default.
C7_OwnDefaultApplied ==
    \A i \in Instances :
        (HasData(i) /\ ~out[i].threw) =>
            \A k \in Matched(i) :
                LET n == Entries(out[i].result)[k]
                    declared == RulesOf(i)[n.rule].props
                IN  \A key \in DOMAIN declared :
                        (/\ declared[key].default # Undefined
                         /\ key \notin DOMAIN DataOf(i)[k]
                         /\ Get(instances[i].passed, key) = Undefined)
                        => Get(n.props, key) = declared[key].default

\* C8: the data prop defaults to an empty list, and a render pass of a
\* component that was passed no data invokes no rule and raises nothing.
C8_NoDataRendersNothing ==
    \A i \in Instances :
        "data" \notin DOMAIN instances[i].passed =>
            /\ "data" \in DOMAIN instances[i].props
            /\ instances[i].props["data"] = Arr(<<>>)
            /\ ~out[i].threw
            /\ out[i].warned = <<>>
            /\ Entries(out[i].result) = <<>>

\* C9: two mounted instances of a stateful component have different globals
\* objects, and a write to the globals of one leaves those of the other as
\* they were.
C9_StatefulGlobalsApart ==
    [][\A i, j \in Instances :
          (/\ i # j
           /\ ~components[instances[i].component].functional
           /\ ~components[instances[j].component].functional)
          => /\ instances[i].provided # instances[j].provided
             /\ heap'[instances[i].provided.id] # heap[instances[i].provided.id]
                   => heap'[instances[j].provided.id] = heap[instances[j].provided.id]]_vars

\* two instances of one stateful component, a key in the globals of the first only
C9_Witness ==
    \E i, j \in Instances :
        /\ i # j
        /\ instances[i].component = instances[j].component
        /\ ~components[instances[i].component].functional
        /\ "open" \in DOMAIN heap[instances[i].provided.id]
        /\ heap[instances[j].provided.id] = EmptyObj

\* the globals the rules of instance i were handed at its last render pass
CtxGlobals(i) ==
    {Get(n.ctx, "globals") :
        n \in {Entries(out[i].result)[k] : k \in Matched(i)}}

\* C10: every render of every instance of one functional component hands the
\* rules the same globals object, made when transformRulesToComponent was
\* called, so that what a rule stores there is there for every instance; two
\* calls of transformRulesToComponent make two objects.
C10_FunctionalGlobalsShared ==
    \A i, j \in Instances :
        (/\ components[instances[i].component].functional
         /\ components[instances[j].component].functional)
        => /\ CtxGlobals(i) = {components[instances[i].component].globals}
           /\ \A g \in CtxGlobals(i) : g.t = "ref" /\ g.id \in 1..Len(heap)
           /\ instances[i].component = instances[j].component
                 => CtxGlobals(i) = CtxGlobals(j)
           /\ instances[i].component # instances[j].component
                 => CtxGlobals(i) \cap CtxGlobals(j) = {}

\* two instances of one functional component, handed one object with a key stored
C10_Witness ==
    \E i, j \in Instances :
        /\ i # j
        /\ instances[i].component = instances[j].component
        /\ components[instances[i].component].functional
        /\ \E g \in CtxGlobals(i) \cap CtxGlobals(j) : "open" \in DOMAIN heap[g.id]

\* the context objects the rules of instance i were handed at its last render pass
Contexts(i) ==
    {n.ctx : n \in {Entries(out[i].result)[k] : k \in Matched(i)}}

\* C11, as claimed: in both output modes the context handed to $becomes has a
\* globals field, which is the globals object of the instance (stateful) or of
\* the component definition (functional), and is never undefined.
C11_ContextHasGlobals ==
    \A i \in Instances :
        HasData(i) =>
            \A ctx \in Contexts(i) :
                /\ Get(ctx, "globals") # Undefined
                /\ Get(ctx, "globals") = GlobalsOf(i)

\* C11, amended: the context of a functional component has a globals field,
\* the object of the component definition; the context of a stateful component
\* is the instance itself, which has no globals field, and the object that
\* provide() made for the instance is reached through inject only.
C11_GlobalsInFunctionalContextOnly ==
    \A i \in Instances :
        HasData(i) =>
            \A ctx \in Contexts(i) :
                IF components[instances[i].component].functional
                THEN /\ "globals" \in DOMAIN ctx
                     /\ ctx["globals"] = components[instances[i].component].globals
                     /\ ctx["globals"].t = "ref"
                     /\ ctx["globals"].id \in 1..Len(heap)
                ELSE /\ "globals" \notin DOMAIN ctx
                     /\ ctx = This(instances[i])
                     /\ instances[i].provided.t = "ref"
                     /\ instances[i].provided.id \in 1..Len(heap)

\* a functional and a stateful instance, each with an item rendered
C11_Witness ==
    \E i, j \in Instances :
        /\ components[instances[i].component].functional
        /\ ~components[instances[j].component].functional
        /\ \E ctx \in Contexts(i) : Get(ctx, "globals") = GlobalsOf(i)
        /\ \E ctx \in Contexts(j) : Get(ctx, "globals") = Undefined

\* C12: the globals object of a mounted instance is made once and stays: no
\* step puts another object in its place or takes a key out of it, and every
\* render pass of the instance finds in it all that the rules stored before.
C12_GlobalsPersist ==
    [][\A i \in Instances :
          LET g == GlobalsOf(i)
          IN  /\ GlobalsOf(i)' = g
              /\ DOMAIN heap[g.id] \subseteq DOMAIN heap'[g.id]
              /\ out'[i] # out[i] =>
                    /\ out'[i].globals = heap[g.id]
                    /\ heap'[g.id] = heap[g.id]]_vars

\* a render pass of a stateful instance that found the key a rule stored after
\* the instance was mounted
C12_Witness ==
    \E i \in Instances :
        /\ ~components[instances[i].component].functional
        /\ "open" \in DOMAIN out[i].globals
        /\ out[i].globals = heap[instances[i].provided.id]

\* the entries of a render result are the per-item renders, in the order of
\* data: the node of item k with id k - 1 and the item's fields for a matched
\* item, undefined for an unmatched one
PerItemRenders(i, entries) ==
    /\ Len(entries) = Len(DataOf(i))
    /\ \A k \in Matched(i) :
          /\ IsNode(entries[k])
          /\ entries[k].rule \in FittingRules(i, k)
          /\ entries[k].id = k - 1
          /\ \A key \in DOMAIN DataOf(i)[k] : entries[k].props[key] = DataOf(i)[k][key]
    /\ \A k \in Unmatched(i) : entries[k] = Undefined

SettingOf(i) == components[instances[i].component].settings.containingElement

\* C13: when containingElement is a tag name other than "none", or is left
\* out and so 'div', a render pass returns one node of that tag, its children
\* the per-item renders in order, and its props null: neither the bound props
\* nor the attrs reach it.
C13_TagWrapperGetsNothing ==
    \A i \in Instances :
        (/\ HasData(i)
         /\ \/ SettingOf(i) = Undefined
            \/ SettingOf(i).t = "string" /\ SettingOf(i) # Str("none"))
        => /\ out[i].result.t = "vnode"
           /\ out[i].result.type =
                 (IF SettingOf(i) = Undefined THEN Str("div") ELSE SettingOf(i))
           /\ out[i].result.props = Null
           /\ PerItemRenders(i, out[i].result.children)

\* a stateful component wrapping in ul, with p bound and an attribute passed
C13_Witness ==
    \E i \in Instances :
        /\ ~components[instances[i].component].functional
        /\ SettingOf(i) = Str("ul")
        /\ HasData(i) /\ Matched(i) # {}
        /\ "p" \in DOMAIN components[instances[i].component].props
        /\ Get(instances[i].props, "p") = Str("b")
        /\ Get(instances[i].attrs, "class") = Str("c")
        /\ out[i].result.type = Str("ul")
        /\ out[i].result.props = Null

\* C14: when containingElement is a component, a render pass returns one node
\* of that component, its default slot the per-item renders, and its props
\* the component's props without data together with the attrs; data is not
\* among them.
C14_ComponentWrapperGetsPropsSansData ==
    \A i \in Instances :
        (HasData(i) /\ SettingOf(i).t = "component") =>
            LET bound == instances[i].props
                attrs == instances[i].attrs
                keys == ((DOMAIN bound) \ {"data"}) \cup DOMAIN attrs
            IN  /\ out[i].result.t = "vnode"
                /\ out[i].result.type = SettingOf(i)
                /\ DOMAIN out[i].result.props = keys
                /\ "data" \notin DOMAIN out[i].result.props
                /\ \A key \in keys :
                      out[i].result.props[key] =
                          IF key \in DOMAIN attrs THEN attrs[key] ELSE bound[key]
                /\ PerItemRenders(i, out[i].result.children)

\* a functional component wrapping in a component, with p bound and an
\* attribute passed: both forwarded, data not
C14_Witness ==
    \E i \in Instances :
        /\ components[instances[i].component].functional
        /\ SettingOf(i) = ComponentRef("Container")
        /\ HasData(i) /\ Matched(i) # {}
        /\ Get(out[i].result.props, "p") = Str("b")
        /\ Get(out[i].result.props, "class") = Str("c")
        /\ "data" \notin DOMAIN out[i].result.props

\* C15: the declared props of the component are data and the rule props
\* flagged input, each with the specification its rule gives it; a rule prop
\* that is not flagged input is not declared, and data stays the array-typed
\* list of items whatever the rules declare.
C15_PropertySurface ==
    \A c \in 1..Len(components) :
        LET rules == components[c].rules
            declared == components[c].props
            flagged(j) == {k \in DOMAIN rules[j].props : rules[j].props[k].input}
        IN  /\ DOMAIN declared = {"data"} \cup UNION {flagged(j) : j \in 1..Len(rules)}
            /\ \A j \in 1..Len(rules) :
                  \A k \in flagged(j) \ {"data"} : declared[k] = rules[j].props[k]
            /\ declared["data"] = DataProp
            /\ declared["data"].type = "Array"

\* C16: the id handed to $becomes is the zero-based place of the item in the
\* data of the pass, unmatched items before it counted; the ids of one pass
\* are distinct and grow along the output, and an item that the caller moves
\* is handed the id of its new place in the next pass.
C16_IdIsPlaceInData ==
    \A i \in Instances :
        HasData(i) =>
            LET ns == Entries(out[i].result)
            IN  /\ \A k \in Matched(i) : ns[k].id = k - 1
                /\ \A k, l \in Matched(i) :
                      k < l => ns[k].id < ns[l].id

\* two different matched items behind an unmatched one: ids 1 and 2, in the
\* order the data has now
C16_Witness ==
    \E i \in Instances :
        /\ HasData(i)
        /\ Len(DataOf(i)) = 3
        /\ Unmatched(i) = {1}
        /\ DataOf(i)[2] # DataOf(i)[3]
        /\ LET ns == Entries(out[i].result)
           IN  /\ ns[2].id = 1 /\ ns[3].id = 2
               /\ \A key \in DOMAIN DataOf(i)[3] : ns[3].props[key] = DataOf(i)[3][key]

\* C17: with containingElement "empty" a render pass returns the list of the
\* rendered items, with no element around it.
C17_EmptyRendersFragment ==
    \A i \in Instances :
        (HasData(i) /\ SettingOf(i) = Str("empty")) =>
            /\ out[i].result.t = "array"
            /\ Len(out[i].result.items) = Len(DataOf(i))

\* a render result with the context taken out of every node
SansContext(result) ==
    LET bare(n) == IF IsNode(n) THEN [rule |-> n.rule, props |-> n.props, id |-> n.id]
                   ELSE n
        entries(ns) == [k \in 1..Len(ns) |-> bare(ns[k])]
    IN  IF result = Undefined THEN Undefined
        ELSE IF result.t = "array" THEN [items |-> entries(result.items)]
        ELSE [type |-> result.type, props |-> result.props,
              children |-> entries(result.children)]

\* C18: a functional and a stateful component made from the same rules and the
\* same containingElement, mounted with the same props and attrs, render the
\* same: the same rule, resolved props and id for every item, a warning for
\* the same items, the same wrapper with the same props; only the context
\* objects differ.
C18_ModesRenderAlike ==
    \A i, j \in Instances :
        (/\ components[instances[i].component].functional
         /\ ~components[instances[j].component].functional
         /\ RulesOf(i) = RulesOf(j)
         /\ SettingOf(i) = SettingOf(j)
         /\ instances[i].passed = instances[j].passed)
        => /\ instances[i].props = instances[j].props
           /\ instances[i].attrs = instances[j].attrs
           /\ out[i].threw = out[j].threw
           /\ out[i].warned = out[j].warned
           /\ SansContext(out[i].result) = SansContext(out[j].result)
           /\ HasData(i) => \A k \in Matched(i) :
                 Entries(out[i].result)[k].ctx # Entries(out[j].result)[k].ctx

\* both mounted around a component, with p bound, an attribute passed, a
\* matched and an unmatched item
C18_Witness ==
    \E i, j \in Instances :
        /\ components[instances[i].component].functional
        /\ ~components[instances[j].component].functional
        /\ RulesOf(i) = RulesOf(j)
        /\ instances[i].passed = instances[j].passed
        /\ SettingOf(i) = ComponentRef("Container")
        /\ SettingOf(j) = ComponentRef("Container")
        /\ Get(instances[i].passed, "p") = Str("b")
        /\ Get(instances[i].passed, "class") = Str("c")
        /\ "p" \in DOMAIN components[instances[i].component].props
        /\ HasData(i)
        /\ Matched(i) # {} /\ Unmatched(i) # {}
        /\ out[i].warned = out[j].warned
        /\ out[j].warned # <<>>

=============================================================================
